---- MODULE Spec2Model ----
(***************************************************************************)
(* A model of the commit log of burmudar/prolog (package internal/log):    *)
(* the store (store.go), the index (index.go), the segment and the Log     *)
(* (log.go), with the Log's RWMutex and the goroutines that call it.       *)
(*                                                                         *)
(* The file system is modelled by `files` (name -> content) and            *)
(* `dirExists`.  A store file's content is its bytes; an index file's      *)
(* content is its length in bytes and the 12-byte entries written into it  *)
(* (every byte not covered by a written entry is zero).  The index's       *)
(* MAP_SHARED mapping is the file itself: a write through the mapping is a *)
(* write to the file's entries.                                            *)
(***************************************************************************)
EXTENDS Integers, Sequences, FiniteSets, TLC

VARIABLES
    Config,         \* Log.Config after newLog's defaulting
    dirExists,      \* whether Log.Dir exists on disk
    files,          \* the files of Log.Dir: <<baseOffset, ext>> -> content
    segs,           \* every *segment this Log object created, in creation order
    segments,       \* Log.segments: [isNil, list] (list holds indices into segs)
    activeSegment,  \* Log.activeSegment: an index into segs, 0 for nil
    mu,             \* Log.mu: [w |-> holder of the write lock or "", r |-> read holders]
    pc,             \* per goroutine: its stack of frames, <<>> when in client code
    ret,            \* per goroutine: the outcome of its last call on this Log, once finished
    rdr,            \* per goroutine: the stream Log.Reader() gave it, if any
    hist,           \* the successful Log.Append calls so far: <<[off, val]>>
    calls,          \* number of Log.Append calls made (bounds the model)
    closed,         \* a Log.Close of this Log object has returned nil
    crashed,        \* a goroutine panicked: the process is gone
    reopened,       \* the directory has been re-opened by a second newLog
    unit,           \* a store or an index used on its own, as the package's tests
                    \* use them: [obj, ops] (the object, the calls made on it)
    stream          \* a grpcServer.ConsumeStream call over this Log: its position,
                    \* req.Offset, the responses sent, its result, the context

vars == <<Config, dirExists, files, segs, segments, activeSegment, mu, pc, ret,
          rdr, hist, calls, closed, crashed, reopened, unit, stream>>

-----------------------------------------------------------------------------
(* Bounds and program constants *)

\* Log.Append calls made over one behaviour (successful or not).
MaxAppends == 4

\* Calls made on a stand-alone store over one behaviour.
MaxUnitOps == 4
\* Calls made on a stand-alone index over one behaviour, newIndex not counted.
MaxIndexOps == 3

\* store.go: lenWidth
lenWidth == 8
\* index.go: indexPosWidth, storePosWidth, entryWidth
indexPosWidth == 4
storePosWidth == 8
entryWidth == indexPosWidth + storePosWidth
\* newLog's defaults for a zero MaxStoreBytes / MaxIndexBytes
DefaultMaxStoreBytes == 1024
DefaultMaxIndexBytes == 1024

\* The byte payloads callers append (lengths 1 and 5: frames of 9 and 13 bytes).
Values == { <<65>>, <<66, 67, 68, 69, 70>> }

\* The configurations handed to newLog.  A zero field takes newLog's default.
\*  - rolls on the store size (two frames fill 18 bytes)
\*  - rolls on the index (two entries fill 24 bytes), non-zero InitialOffset
\*  - three entries of index capacity and a store that outgrows it
Configs ==
    { [MaxStoreBytes |-> 18, MaxIndexBytes |-> 36, InitialOffset |-> 0],
      [MaxStoreBytes |-> 0,  MaxIndexBytes |-> 24, InitialOffset |-> 1],
      [MaxStoreBytes |-> 64, MaxIndexBytes |-> 36, InitialOffset |-> 0] }

Threads1 == {"t1"}
Threads2 == {"t1", "t2"}

-----------------------------------------------------------------------------
(* Generic helpers *)

Min(a, b) == IF a < b THEN a ELSE b

Put(f, k, v) == [x \in (DOMAIN f) \cup {k} |-> IF x = k THEN v ELSE f[x]]

Drop(f, ks) == [x \in (DOMAIN f) \ ks |-> f[x]]

RECURSIVE Pow256(_)
Pow256(n) == IF n = 0 THEN 1 ELSE 256 * Pow256(n - 1)

\* binary.BigEndian.PutUint64 / binary.Write(enc, uint64): 8 bytes, most
\* significant first (the model's lengths stay far below 2^24).
PutUint64(n) == [i \in 1..lenWidth |->
                    IF lenWidth - i > 2 THEN 0
                    ELSE (n \div Pow256(lenWidth - i)) % 256]

\* binary.BigEndian.Uint64 of 8 bytes whose upper 5 bytes are zero.
RECURSIVE Uint64From(_, _)
Uint64From(b, i) ==
    IF i > lenWidth THEN 0
    ELSE b[i] * (IF lenWidth - i > 2 THEN 0 ELSE Pow256(lenWidth - i)) + Uint64From(b, i + 1)
Uint64(b) == Uint64From(b, 1)

-----------------------------------------------------------------------------
(* store.go *)

StoreName(base) == <<base, "store">>
IndexName(base) == <<base, "index">>

\* newStore: the size is the file's length; a fresh bufio.Writer (werr is
\* the writer's sticky error: once a write to the file failed, every later
\* Write and Flush returns it).
newStore(fs, name) ==
    [name |-> name, size |-> Len(fs[name].data), buf |-> <<>>, closed |-> FALSE,
     werr |-> ""]

\* store.Append returning the position after the frame instead of its start.
StoreAppendPosAfter(s, p) ==
    LET w == Len(p) + lenWidth
    IN  IF s.werr # "" THEN [err |-> s.werr, store |-> s, n |-> 0, pos |-> 0]
        ELSE [err |-> "",
              store |-> [s EXCEPT !.buf = s.buf \o PutUint64(Len(p)) \o p,
                                  !.size = s.size + w],
              n |-> w, pos |-> s.size + w]

\* store.Append: the frame goes to the bufio.Writer, not to the file (the
\* model's frames never fill bufio's 4096-byte buffer).  A writer with a sticky
\* error refuses the length, and size stays.
StoreAppend(s, p) ==
    LET w == Len(p) + lenWidth
    IN  IF s.werr # "" THEN [err |-> s.werr, store |-> s, n |-> 0, pos |-> 0]
        ELSE [err |-> "",
              store |-> [s EXCEPT !.buf = s.buf \o PutUint64(Len(p)) \o p,
                                  !.size = s.size + w],
              n |-> w, pos |-> s.size]

\* The ways the file's Write can go when bufio flushes: it takes all the
\* bytes, it fails taking none, or it fails after taking the first byte.
FlushFaults == {"", "fail", "short"}

\* bufio.Writer.Flush on the store's file (opened O_APPEND): buffered bytes are
\* appended to the file.  A sticky error is returned at once; an empty buffer
\* writes nothing and cannot fail; a failed write keeps the bytes the file did
\* not take and makes the error sticky.
StoreFlushFault(fs, s, fault) ==
    IF s.werr # "" THEN [err |-> s.werr, fs |-> fs, store |-> s]
    ELSE IF s.buf = <<>> THEN [err |-> "", fs |-> fs, store |-> s]
    ELSE IF s.closed \/ s.name \notin DOMAIN fs \/ fault = "fail"
         THEN [err |-> "io", fs |-> fs, store |-> [s EXCEPT !.werr = "io"]]
    ELSE IF fault = "short"
         THEN [err |-> "io",
               fs |-> [fs EXCEPT ![s.name] =
                          [len |-> Len(fs[s.name].data) + 1,
                           data |-> Append(fs[s.name].data, Head(s.buf))]],
               store |-> [s EXCEPT !.buf = Tail(s.buf), !.werr = "io"]]
         ELSE [err |-> "",
               fs |-> [fs EXCEPT ![s.name] =
                          [len |-> Len(fs[s.name].data) + Len(s.buf),
                           data |-> fs[s.name].data \o s.buf]],
               store |-> [s EXCEPT !.buf = <<>>]]

\* Flush with the file taking every byte.
StoreFlush(fs, s) == StoreFlushFault(fs, s, "")

\* os.File.ReadAt(p, off) with len(p) = n: all n bytes or an error.
FileReadAt(fs, s, off, n) ==
    IF s.closed \/ s.name \notin DOMAIN fs THEN [err |-> "io", data |-> <<>>]
    ELSE IF off + n > Len(fs[s.name].data) THEN [err |-> "EOF", data |-> <<>>]
    ELSE [err |-> "", data |-> SubSeq(fs[s.name].data, off + 1, off + n)]

\* store.Read without the flush: the positional reads see the file only.
StoreReadUnflushed(fs, s, pos) ==
    LET Sized(size) ==
            IF size.err # ""
            THEN [err |-> size.err, fs |-> fs, store |-> s, data |-> <<>>]
            ELSE LET Filled(data) ==
                         [err |-> data.err, fs |-> fs, store |-> s, data |-> data.data]
                 IN  Filled(FileReadAt(fs, s, pos + lenWidth, Uint64(size.data)))
    IN  Sized(FileReadAt(fs, s, pos, lenWidth))

\* store.Read(pos): flush, read the 8-byte length, read that many bytes.
StoreRead(fs, s, pos) ==
    LET Flushed(fl) ==
            IF fl.err # ""
            THEN [err |-> fl.err, fs |-> fl.fs, store |-> fl.store, data |-> <<>>]
            ELSE LET Sized(size) ==
                         IF size.err # ""
                         THEN [err |-> size.err, fs |-> fl.fs, store |-> fl.store,
                               data |-> <<>>]
                         ELSE LET Filled(data) ==
                                      [err |-> data.err, fs |-> fl.fs,
                                       store |-> fl.store, data |-> data.data]
                              IN  Filled(FileReadAt(fl.fs, fl.store, pos + lenWidth,
                                                    Uint64(size.data)))
                 IN  Sized(FileReadAt(fl.fs, fl.store, pos, lenWidth))
    IN  Flushed(StoreFlush(fs, s))

\* os.File.ReadAt(p, off) with len(p) = n at the file's tail: the bytes that
\* are there, with io.EOF when they are fewer than n.
Available(content, off, n) ==
    IF off >= Len(content) THEN 0 ELSE Min(n, Len(content) - off)

\* store.ReadAt(p, offset) with len(p) = n: flush, then os.File.ReadAt.
StoreReadAt(fs, s, off, n) ==
    LET Flushed(fl) ==
            IF fl.err # ""
            THEN [err |-> fl.err, fs |-> fl.fs, store |-> fl.store, data |-> <<>>]
            ELSE IF fl.store.closed \/ fl.store.name \notin DOMAIN fl.fs
            THEN [err |-> "io", fs |-> fl.fs, store |-> fl.store, data |-> <<>>]
            ELSE LET Read(content, have) ==
                         [err |-> IF have < n THEN "EOF" ELSE "",
                          fs |-> fl.fs, store |-> fl.store,
                          data |-> SubSeq(content, off + 1, off + have)]
                 IN  Read(fl.fs[fl.store.name].data,
                          Available(fl.fs[fl.store.name].data, off, n))
    IN  Flushed(StoreFlush(fs, s))

\* store.Close without the flush: the file is closed with the buffer unwritten.
StoreCloseUnflushed(fs, s, fault) ==
    IF s.closed THEN [err |-> "closed", fs |-> fs, store |-> s]
    ELSE [err |-> "", fs |-> fs, store |-> [s EXCEPT !.closed = TRUE]]

\* store.Close: flush, then close the file; a failed flush returns its error
\* and leaves the file open.
StoreCloseFault(fs, s, fault) ==
    LET Flushed(fl) ==
            IF fl.err # "" THEN fl
            ELSE IF fl.store.closed
            THEN [err |-> "closed", fs |-> fl.fs, store |-> fl.store]
            ELSE [err |-> "", fs |-> fl.fs,
                  store |-> [fl.store EXCEPT !.closed = TRUE]]
    IN  Flushed(StoreFlushFault(fs, s, fault))

StoreClose(fs, s) == StoreCloseFault(fs, s, "")

-----------------------------------------------------------------------------
(* index.go *)

ZeroEntry == <<0, 0>>

\* The entries of an index file that lie wholly inside its first n bytes.
EntriesWithin(data, n) == SubSeq(data, 1, Min(Len(data), n \div entryWidth))

\* os.Truncate(name, n): the file becomes n bytes long; bytes past n are lost,
\* bytes added are zero.
TruncateFile(fs, name, n) ==
    [fs EXCEPT ![name] = [len |-> n, data |-> EntriesWithin(fs[name].data, n)]]

\* The entry in slot k (0-based) of the mapping, i.e. bytes 12k .. 12k+11.
EntryAt(fs, name, k) ==
    IF name \in DOMAIN fs /\ k < Len(fs[name].data) THEN fs[name].data[k + 1]
    ELSE ZeroEntry

\* newIndex: size is the file's length before it is grown to MaxIndexBytes and
\* mapped whole.
newIndex(fs, name, c) ==
    IF name \notin DOMAIN fs THEN [err |-> "io", fs |-> fs, index |-> <<>>]
    ELSE [err |-> "",
          fs |-> TruncateFile(fs, name, c.MaxIndexBytes),
          index |-> [name |-> name, size |-> fs[name].len,
                     maplen |-> c.MaxIndexBytes, closed |-> FALSE]]

\* The step of index.Close that the operating system fails, "" for none.
IndexCloseFaults == {"", "msync", "fsync", "truncate", "close"}

\* index.Close without the truncation: the file keeps its grown length.
IndexCloseUntruncated(fs, idx, fault) ==
    IF fault = "msync" THEN [err |-> "msync", fs |-> fs, index |-> idx, steps |-> <<"msync">>]
    ELSE IF idx.closed \/ fault = "fsync"
    THEN [err |-> IF idx.closed THEN "closed" ELSE "fsync", fs |-> fs, index |-> idx,
          steps |-> <<"msync", "fsync">>]
    ELSE IF fault = "close"
    THEN [err |-> "close", fs |-> fs, index |-> idx, steps |-> <<"msync", "fsync", "close">>]
    ELSE [err |-> "", fs |-> fs, index |-> [idx EXCEPT !.closed = TRUE],
          steps |-> <<"msync", "fsync", "close">>]

\* index.Close: sync the mapping, sync the file, truncate the file to size,
\* close the file; the first failing step returns its error and the rest is
\* skipped.  steps lists the steps that ran.  Syncing a closed file fails, and
\* so does truncating a file that is gone.
IndexCloseFault(fs, idx, fault) ==
    IF fault = "msync" THEN [err |-> "msync", fs |-> fs, index |-> idx, steps |-> <<"msync">>]
    ELSE IF idx.closed \/ fault = "fsync"
    THEN [err |-> IF idx.closed THEN "closed" ELSE "fsync", fs |-> fs, index |-> idx,
          steps |-> <<"msync", "fsync">>]
    ELSE IF idx.name \notin DOMAIN fs \/ fault = "truncate"
    THEN [err |-> IF fault = "truncate" THEN "truncate" ELSE "io", fs |-> fs, index |-> idx,
          steps |-> <<"msync", "fsync", "truncate">>]
    ELSE IF fault = "close"
    THEN [err |-> "close", fs |-> TruncateFile(fs, idx.name, idx.size), index |-> idx,
          steps |-> <<"msync", "fsync", "truncate", "close">>]
    ELSE [err |-> "",
          fs |-> TruncateFile(fs, idx.name, idx.size),
          index |-> [idx EXCEPT !.closed = TRUE],
          steps |-> <<"msync", "fsync", "truncate", "close">>]

IndexClose(fs, idx) == IndexCloseFault(fs, idx, "")

\* index.Read(in).  With 0 < size < entryWidth and in = -1, totalEntries - 1
\* wraps to 2^64-1 and pos + entryWidth wraps to 0, so the size check passes and
\* slicing the mapping panics.
IndexRead(fs, idx, in) ==
    IF idx.size = 0 THEN [err |-> "EOF", rel |-> 0, pos |-> 0]
    ELSE IF in < -1 THEN [err |-> "invalid index offset", rel |-> 0, pos |-> 0]
    ELSE IF in = -1 /\ idx.size \div entryWidth = 0
         THEN [err |-> "panic", rel |-> 0, pos |-> 0]
    ELSE LET At(off, pos) ==
                 IF idx.size < pos + entryWidth
                 THEN [err |-> "EOF", rel |-> 0, pos |-> 0]
                 ELSE IF pos + entryWidth > idx.maplen
                 THEN [err |-> "panic", rel |-> 0, pos |-> 0]
                 ELSE [err |-> "",
                       rel |-> EntryAt(fs, idx.name, off)[1],
                       pos |-> EntryAt(fs, idx.name, off)[2]]
             Entry(off) == At(off, off * entryWidth)
         IN  Entry(IF in = -1 THEN idx.size \div entryWidth - 1 ELSE in)

\* The mapping with entry e stored in slot k (0-based).
SetEntry(fs, name, k, e) ==
    IF name \notin DOMAIN fs THEN fs
    ELSE [fs EXCEPT ![name].data =
              [i \in 1..(IF k + 1 > Len(@) THEN k + 1 ELSE Len(@)) |->
                  IF i = k + 1 THEN e
                  ELSE IF i <= Len(@) THEN @[i] ELSE ZeroEntry]]

\* index.Write(off, pos): the capacity check compares the mapping's length with
\* the STORE position pos + entryWidth; slicing the mapping at size panics when
\* size + entryWidth exceeds it.  (size is a multiple of entryWidth whenever
\* the slice is in range, so the entry lands in slot size / entryWidth.)
IndexWrite(fs, idx, off, pos) ==
    IF idx.maplen < pos + entryWidth THEN [err |-> "EOF", fs |-> fs, index |-> idx]
    ELSE IF idx.size + entryWidth > idx.maplen
         THEN [err |-> "panic", fs |-> fs, index |-> idx]
    ELSE [err |-> "",
          fs |-> SetEntry(fs, idx.name, idx.size \div entryWidth, <<off, pos>>),
          index |-> [idx EXCEPT !.size = idx.size + entryWidth]]

-----------------------------------------------------------------------------
(* The segment: pairs one store with one index under a base offset. *)

\* os.OpenFile(..., O_CREATE): the file as it is, or a new empty one.
OpenOrCreate(fs, name) ==
    IF name \in DOMAIN fs THEN fs ELSE Put(fs, name, [len |-> 0, data |-> <<>>])

\* newSegment(dir, baseOffset, c): open or create both files, build the store
\* and the index, and take nextOffset from the last index entry.
SegNew(fs, dirOK, base, c) ==
    LET Built(fs1, st, ix) ==
            IF ix.err # "" THEN [err |-> ix.err, fs |-> fs1, seg |-> <<>>]
            ELSE LET Last(last) ==
                         IF last.err \notin {"", "EOF"}
                         THEN [err |-> last.err, fs |-> ix.fs, seg |-> <<>>]
                         ELSE [err |-> "", fs |-> ix.fs,
                               seg |-> [baseOffset |-> base,
                                        nextOffset |-> IF last.err = "EOF" THEN base
                                                       ELSE base + last.rel + 1,
                                        store |-> st, index |-> ix.index]]
                 IN  Last(IndexRead(ix.fs, ix.index, -1))
        Opened(fs1) == Built(fs1, newStore(fs1, StoreName(base)),
                             newIndex(fs1, IndexName(base), c))
    IN  IF ~dirOK THEN [err |-> "io", fs |-> fs, seg |-> <<>>]
        ELSE Opened(OpenOrCreate(OpenOrCreate(fs, StoreName(base)), IndexName(base)))

\* segment.Append(value): the store first, then the index entry, then nextOffset.
SegAppend(fs, seg, v) ==
    LET Indexed(sa, iw) ==
            IF sa.err # ""
            THEN [err |-> sa.err, fs |-> fs, seg |-> seg, off |-> 0]
            ELSE IF iw.err # ""
            THEN [err |-> iw.err, fs |-> fs, seg |-> [seg EXCEPT !.store = sa.store],
                  off |-> 0]
            ELSE [err |-> "", fs |-> iw.fs,
                  seg |-> [seg EXCEPT !.store = sa.store, !.index = iw.index,
                                      !.nextOffset = seg.nextOffset + 1],
                  off |-> seg.nextOffset]
        Stored(sa) == Indexed(sa, IndexWrite(fs, seg.index,
                                             seg.nextOffset - seg.baseOffset, sa.pos))
    IN  Stored(StoreAppend(seg.store, v))

\* segment.Read(off): the index entry at off - baseOffset, then the store frame.
SegRead(fs, seg, off) ==
    LET Framed(sr) ==
            [err |-> sr.err, fs |-> sr.fs,
             seg |-> [seg EXCEPT !.store = sr.store], data |-> sr.data]
        Located(ir) ==
            IF ir.err # "" THEN [err |-> ir.err, fs |-> fs, seg |-> seg, data |-> <<>>]
            ELSE Framed(StoreRead(fs, seg.store, ir.pos))
    IN  Located(IndexRead(fs, seg.index, off - seg.baseOffset))

\* segment.IsMaxed
SegIsMaxed(seg, c) ==
    \/ seg.store.size >= c.MaxStoreBytes
    \/ seg.index.size + entryWidth > c.MaxIndexBytes

\* segment.Close: the index, then the store.
SegClose(fs, seg) ==
    LET StoreClosed(ic, sc) ==
            [err |-> sc.err, fs |-> sc.fs,
             seg |-> [seg EXCEPT !.index = ic.index, !.store = sc.store]]
        IndexClosed(ic) ==
            IF ic.err # "" THEN [err |-> ic.err, fs |-> ic.fs, seg |-> seg]
            ELSE StoreClosed(ic, StoreClose(ic.fs, seg.store))
    IN  IndexClosed(IndexClose(fs, seg.index))

\* segment.Remove: Close, then delete both files.
SegRemove(fs, seg) ==
    LET Closed(cl) ==
            IF cl.err # "" THEN cl
            ELSE IF {seg.store.name, seg.index.name} \subseteq DOMAIN cl.fs
            THEN [err |-> "", fs |-> Drop(cl.fs, {seg.store.name, seg.index.name}),
                  seg |-> cl.seg]
            ELSE [err |-> "io", fs |-> cl.fs, seg |-> cl.seg]
    IN  Closed(SegClose(fs, seg))

-----------------------------------------------------------------------------
(* log.go.  The operators below work on a record W of the Log's fields and    *)
(* the directory: [fs, dirOK, segs, segments, active].                        *)

\* Log.newSegment(off): the new segment becomes the active one; the slice
\* is made non-nil, and `append(l.segments)` appends nothing to it.
LogNewSegment(W, off, c) ==
    LET Made(r) ==
            IF r.err # "" THEN [err |-> r.err, W |-> [W EXCEPT !.fs = r.fs]]
            ELSE [err |-> "",
                  W |-> [W EXCEPT !.fs = r.fs,
                                  !.segs = Append(W.segs, r.seg),
                                  !.segments = [isNil |-> FALSE,
                                                list |-> W.segments.list],
                                  !.active = Len(W.segs) + 1]]
    IN  Made(SegNew(W.fs, W.dirOK, off, c))

\* The base offsets parsed from the names of the files of the directory, one
\* per file, sorted ascending (setup's baseOffsets after sort.Slice).
RECURSIVE SortedBases(_)
SortedBases(names) ==
    IF names = {} THEN <<>>
    ELSE LET First(lo) == <<lo[1]>> \o SortedBases(names \ {lo})
         IN  First(CHOOSE n \in names : \A m \in names : n[1] <= m[1])

\* setup's loop: newSegment(baseOffsets[i]) for i = 0, 2, 4, ...
RECURSIVE SetupLoop(_, _, _, _)
SetupLoop(W, offs, i, c) ==
    IF i > Len(offs) THEN [err |-> "", W |-> W]
    ELSE LET Made(r) == IF r.err # "" THEN r ELSE SetupLoop(r.W, offs, i + 2, c)
         IN  Made(LogNewSegment(W, offs[i], c))

\* Log.setup
LogSetup(W, c) ==
    LET Opened(r) ==
            IF r.err # "" THEN r
            ELSE IF r.W.segments.isNil THEN LogNewSegment(r.W, c.InitialOffset, c)
            ELSE r
    IN  IF ~W.dirOK THEN [err |-> "io", W |-> W]
        ELSE Opened(SetupLoop(W, SortedBases(DOMAIN W.fs), 1, c))

\* newLog: the defaults for zero limits, then setup on a fresh Log.
Defaulted(c) ==
    [c EXCEPT !.MaxStoreBytes = IF @ = 0 THEN DefaultMaxStoreBytes ELSE @,
              !.MaxIndexBytes = IF @ = 0 THEN DefaultMaxIndexBytes ELSE @]

newLog(fs, dirOK, c) ==
    LogSetup([fs |-> fs, dirOK |-> dirOK, segs |-> <<>>,
              segments |-> [isNil |-> TRUE, list |-> <<>>], active |-> 0], c)

\* Log.Append with the roll at off instead of off + 1.
LogAppendRollsAtOff(W, v, c) ==
    LET Rolled(off, n) == [err |-> n.err, W |-> n.W, off |-> off]
        Appended(r, W1) ==
            IF r.err # "" THEN [err |-> r.err, W |-> W1, off |-> 0]
            ELSE IF SegIsMaxed(r.seg, c)
            THEN Rolled(r.off, LogNewSegment(W1, r.off, c))
            ELSE [err |-> "", W |-> W1, off |-> r.off]
        Stored(r) == Appended(r, [W EXCEPT !.fs = r.fs, !.segs[W.active] = r.seg])
    IN  IF W.active = 0 THEN [err |-> "panic", W |-> W, off |-> 0]
        ELSE Stored(SegAppend(W.fs, W.segs[W.active], v))

\* Log.Append's body (under l.mu.Lock): append to the active segment and roll
\* to a new segment at off + 1 when it is maxed.
LogAppend(W, v, c) ==
    LET Rolled(off, n) == [err |-> n.err, W |-> n.W, off |-> off]
        Appended(r, W1) ==
            IF r.err # "" THEN [err |-> r.err, W |-> W1, off |-> 0]
            ELSE IF SegIsMaxed(r.seg, c)
            THEN Rolled(r.off, LogNewSegment(W1, r.off + 1, c))
            ELSE [err |-> "", W |-> W1, off |-> r.off]
        Stored(r) == Appended(r, [W EXCEPT !.fs = r.fs, !.segs[W.active] = r.seg])
    IN  IF W.active = 0 THEN [err |-> "panic", W |-> W, off |-> 0]
        ELSE Stored(SegAppend(W.fs, W.segs[W.active], v))

\* Log.findSegment(off): the first segment of l.segments whose range holds
\* off, 0 for nil.
RECURSIVE FindFrom(_, _, _)
FindFrom(W, off, i) ==
    IF i > Len(W.segments.list) THEN 0
    ELSE IF /\ W.segs[W.segments.list[i]].baseOffset <= off
            /\ off < W.segs[W.segments.list[i]].nextOffset
         THEN W.segments.list[i]
         ELSE FindFrom(W, off, i + 1)
findSegment(W, off) == FindFrom(W, off, 1)

\* Log.Read's body (under l.mu.RLock)
LogRead(W, off) ==
    LET Got(s, r) ==
            [err |-> r.err, W |-> [W EXCEPT !.fs = r.fs, !.segs[s] = r.seg],
             data |-> r.data]
        Found(s) ==
            IF s = 0 \/ W.segs[s].nextOffset <= off
            THEN [err |-> "offset out of range", W |-> W, data |-> <<>>]
            ELSE Got(s, SegRead(W.fs, W.segs[s], off))
    IN  Found(findSegment(W, off))

\* Log.Close's body: close the segments of l.segments in order; the first
\* error returns.
RECURSIVE CloseFrom(_, _)
CloseFrom(W, i) ==
    IF i > Len(W.segments.list) THEN [err |-> "", W |-> W]
    ELSE LET Next1(err, W1) ==
                 IF err # "" THEN [err |-> err, W |-> W1] ELSE CloseFrom(W1, i + 1)
             Closed(s, r) ==
                 Next1(r.err, [W EXCEPT !.fs = r.fs, !.segs[s] = r.seg])
         IN  Closed(W.segments.list[i], SegClose(W.fs, W.segs[W.segments.list[i]]))
LogClose(W) == CloseFrom(W, 1)

\* os.RemoveAll(l.Dir)
RemoveAll(W) == [W EXCEPT !.fs = << >>, !.dirOK = FALSE]

\* Log.LowestOffset / Log.HighestOffset bodies: indexing an empty l.segments
\* panics (index out of range).
LogLowestOffset(W) ==
    IF Len(W.segments.list) = 0 THEN [err |-> "panic", off |-> 0]
    ELSE [err |-> "", off |-> W.segs[W.segments.list[1]].baseOffset]

LogHighestOffset(W) ==
    IF Len(W.segments.list) = 0 THEN [err |-> "panic", off |-> 0]
    ELSE LET off == W.segs[W.segments.list[Len(W.segments.list)]].nextOffset
         IN  [err |-> "", off |-> IF off = 0 THEN 0 ELSE off - 1]

\* Truncate's test `s.nextOffset <= lowest-1` in uint64: for lowest = 0 the
\* right side wraps to 2^64-1 and the test holds for every segment.
BelowLowest(seg, lowest) == IF lowest = 0 THEN TRUE ELSE seg.nextOffset <= lowest - 1

\* Log.Truncate's body, were l.segments assigned on the error path too.
RECURSIVE TruncateFromAssigning(_, _, _, _)
TruncateFromAssigning(W, lowest, i, kept) ==
    IF i > Len(W.segments.list)
    THEN [err |-> "", W |-> [W EXCEPT !.segments = [isNil |-> kept = <<>>, list |-> kept]]]
    ELSE LET Next1(err, W1) ==
                 IF err # ""
                 THEN [err |-> err,
                       W |-> [W1 EXCEPT !.segments = [isNil |-> kept = <<>>, list |-> kept]]]
                 ELSE TruncateFromAssigning(W1, lowest, i + 1, kept)
             Removed(s, r) ==
                 Next1(r.err, [W EXCEPT !.fs = r.fs, !.segs[s] = r.seg])
         IN  IF BelowLowest(W.segs[W.segments.list[i]], lowest)
             THEN Removed(W.segments.list[i],
                          SegRemove(W.fs, W.segs[W.segments.list[i]]))
             ELSE TruncateFromAssigning(W, lowest, i + 1, Append(kept, W.segments.list[i]))

\* Log.Truncate's body: kept collects the retained segments (Go's local
\* `segments`, nil until something is appended); an error returns before
\* l.segments is assigned.
RECURSIVE TruncateFrom(_, _, _, _)
TruncateFrom(W, lowest, i, kept) ==
    IF i > Len(W.segments.list)
    THEN [err |-> "", W |-> [W EXCEPT !.segments = [isNil |-> kept = <<>>, list |-> kept]]]
    ELSE LET Next1(err, W1) ==
                 IF err # "" THEN [err |-> err, W |-> W1]
                 ELSE TruncateFrom(W1, lowest, i + 1, kept)
             Removed(s, r) ==
                 Next1(r.err, [W EXCEPT !.fs = r.fs, !.segs[s] = r.seg])
         IN  IF BelowLowest(W.segs[W.segments.list[i]], lowest)
             THEN Removed(W.segments.list[i],
                          SegRemove(W.fs, W.segs[W.segments.list[i]]))
             ELSE TruncateFrom(W, lowest, i + 1, Append(kept, W.segments.list[i]))
LogTruncate(W, lowest) == TruncateFrom(W, lowest, 1, <<>>)

\* Log.Reader's body: one originReader{s.store, 0} per segment of l.segments.
LogReader(W) == [i \in 1..Len(W.segments.list) |-> [seg |-> W.segments.list[i], off |-> 0]]

-----------------------------------------------------------------------------
(* The state machine: goroutines calling the Log's methods. *)

TheLog == [fs |-> files, dirOK |-> dirExists, segs |-> segs,
           segments |-> segments, active |-> activeSegment]

SetLog(W) ==
    /\ files' = W.fs
    /\ dirExists' = W.dirOK
    /\ segs' = W.segs
    /\ segments' = W.segments
    /\ activeSegment' = W.active

LogUnchanged == UNCHANGED <<files, dirExists, segs, segments, activeSegment>>

NoRet == [fn |-> "", arg |-> <<>>, err |-> "", off |-> 0, data |-> <<>>]
Result(fn, arg, err) == [NoRet EXCEPT !.fn = fn, !.arg = arg, !.err = err]

NoReader == [open |-> FALSE, readers |-> <<>>, out |-> <<>>, err |-> "",
             calls |-> 0]

\* The methods that take l.mu.Lock, were Append to take l.mu.RLock instead.
WritersAppendRLocked == {"Close", "Remove", "Reset", "Truncate"}

\* Methods that take l.mu.Lock and methods that take l.mu.RLock.
Writers == {"Append", "Close", "Remove", "Reset", "Truncate"}
Readers == {"Read", "LowestOffset", "HighestOffset", "Reader"}

\* The offsets callers ask for (Read, Truncate).
Offsets == 0..(MaxAppends + 1)

\* The calls a goroutine can make.
Requests ==
    [fn : {"Append"}, arg : Values]
      \cup [fn : {"Read", "Truncate"}, arg : Offsets]
      \cup [fn : {"Close", "Remove", "Reset", "LowestOffset", "HighestOffset", "Reader"},
            arg : {0}]

Frame(fn, arg) == [fn |-> fn, at |-> "lock", arg |-> arg, rv |-> ""]
Top(t) == pc[t][Len(pc[t])]
At(t, fn, at) == pc[t] # <<>> /\ Top(t).fn = fn /\ Top(t).at = at
SetTop(t, at) == [pc EXCEPT ![t][Len(pc[t])].at = at]
\* The method on top of t's stack calls method fn of the same Log.
CallFrom(t, fn) ==
    [pc EXCEPT ![t] = Append([@ EXCEPT ![Len(@)].at = "calling"], Frame(fn, 0))]

\* No store or index is in use apart from the Log's own.
NoUnit == [obj |-> <<>>, ops |-> <<>>]

\* No ConsumeStream call has been made.
NoStream == [at |-> "idle", start |-> 0, off |-> 0, sent |-> <<>>, err |-> "",
             done |-> FALSE]

InitOf(T) ==
    \E c \in Configs :
        LET Made(r) ==
                /\ files = r.W.fs
                /\ dirExists = r.W.dirOK
                /\ segs = r.W.segs
                /\ segments = r.W.segments
                /\ activeSegment = r.W.active
        IN
        /\ Made(newLog(<< >>, TRUE, Defaulted(c)))
        /\ Config = Defaulted(c)
        /\ mu = [w |-> "", r |-> {}]
        /\ pc = [t \in T |-> <<>>]
        /\ ret = [t \in T |-> NoRet]
        /\ rdr = [t \in T |-> NoReader]
        /\ hist = <<>>
        /\ calls = 0
        /\ closed = FALSE
        /\ crashed = FALSE
        /\ reopened = FALSE
        /\ unit = NoUnit
        /\ stream = NoStream

\* A goroutine in client code calls a method of the Log; the method's first
\* statement is l.mu.Lock() or l.mu.RLock().
CallIn(t, Q) ==
    /\ ~crashed
    /\ pc[t] = <<>>
    /\ \E q \in Q :
        /\ q.fn = "Append" => calls < MaxAppends
        /\ calls' = IF q.fn = "Append" THEN calls + 1 ELSE calls
        /\ pc' = [pc EXCEPT ![t] = <<Frame(q.fn, q.arg)>>]
    /\ ret' = [ret EXCEPT ![t] = NoRet]
    /\ rdr' = [rdr EXCEPT ![t] = NoReader]
    /\ LogUnchanged
    /\ UNCHANGED <<stream, unit, Config, mu, hist, closed, crashed, reopened>>

Call(t) == CallIn(t, Requests)

\* sync.RWMutex: Lock waits for the writer and all readers to leave; RLock
\* waits for the writer to leave and for no Lock to be pending.  Neither is
\* reentrant.
LockPending == \E u \in DOMAIN pc : pc[u] # <<>> /\ Top(u).at = "lock" /\ Top(u).fn \in Writers

Acquire(t) ==
    /\ ~crashed
    /\ pc[t] # <<>>
    /\ Top(t).at = "lock"
    /\ mu.w = ""
    /\ IF Top(t).fn \in Writers
       THEN mu.r = {} /\ mu' = [mu EXCEPT !.w = t]
       ELSE ~LockPending /\ mu' = [mu EXCEPT !.r = @ \cup {t}]
    /\ pc' = SetTop(t, "body")
    /\ LogUnchanged
    /\ UNCHANGED <<stream, unit, Config, ret, rdr, hist, calls, closed, crashed, reopened>>

\* The deferred l.mu.Unlock() / l.mu.RUnlock() of the method on top of t's stack.
Unlocked(t) ==
    IF Top(t).fn \in Writers THEN [mu EXCEPT !.w = ""] ELSE [mu EXCEPT !.r = @ \ {t}]

\* The method on top of t's stack returns res (res.err = "panic": it panics,
\* the deferred unlock runs and the process dies).  A method called by
\* another method of the Log hands its error to its caller.
Finish(t, res) ==
    /\ mu' = Unlocked(t)
    /\ crashed' = (res.err = "panic")
    /\ IF Len(pc[t]) = 1 \/ res.err = "panic"
       THEN /\ pc' = [pc EXCEPT ![t] = <<>>]
            /\ ret' = [ret EXCEPT ![t] = res]
       ELSE /\ pc' = [pc EXCEPT ![t] =
                        [SubSeq(@, 1, Len(@) - 1) EXCEPT ![Len(@) - 1].at = "called",
                                                         ![Len(@) - 1].rv = res.err]]
            /\ ret' = ret

AppendBody(t) ==
    /\ ~crashed
    /\ At(t, "Append", "body")
    /\ LET Done(r) ==
            /\ SetLog(r.W)
            /\ hist' = IF r.err = ""
                       THEN Append(hist, [off |-> r.off, val |-> Top(t).arg])
                       ELSE hist
            /\ Finish(t, [Result("Append", Top(t).arg, r.err) EXCEPT !.off = r.off])
       IN  Done(LogAppend(TheLog, Top(t).arg, Config))
    /\ UNCHANGED <<stream, unit, Config, rdr, calls, closed, reopened>>

ReadBody(t) ==
    /\ ~crashed
    /\ At(t, "Read", "body")
    /\ LET Done(r) ==
            /\ SetLog(r.W)
            /\ Finish(t, [Result("Read", Top(t).arg, r.err) EXCEPT !.data = r.data])
       IN  Done(LogRead(TheLog, Top(t).arg))
    /\ UNCHANGED <<stream, unit, Config, rdr, hist, calls, closed, reopened>>

CloseBody(t) ==
    /\ ~crashed
    /\ At(t, "Close", "body")
    /\ LET Done(r) ==
            /\ SetLog(r.W)
            /\ closed' = (closed \/ r.err = "")
            /\ Finish(t, Result("Close", 0, r.err))
       IN  Done(LogClose(TheLog))
    /\ UNCHANGED <<stream, unit, Config, rdr, hist, calls, reopened>>

\* Log.Remove: holding l.mu, it calls l.Close(), which starts with
\* l.mu.Lock(); once Close has returned nil it removes the directory.
RemoveBody(t) ==
    /\ ~crashed
    /\ pc[t] # <<>>
    /\ Top(t).fn = "Remove"
    /\ Top(t).at \in {"body", "called"}
    /\ IF Top(t).at = "body"
       THEN /\ pc' = CallFrom(t, "Close")
            /\ UNCHANGED <<mu, ret, crashed>>
            /\ LogUnchanged
       ELSE IF Top(t).rv # ""
            THEN LogUnchanged /\ Finish(t, Result("Remove", 0, Top(t).rv))
            ELSE SetLog(RemoveAll(TheLog)) /\ Finish(t, Result("Remove", 0, ""))
    /\ UNCHANGED <<stream, unit, Config, rdr, hist, calls, closed, reopened>>

\* Log.Reset: holding l.mu, it calls l.Remove(), which starts with
\* l.mu.Lock(); once Remove has returned nil it runs setup on the same Log.
ResetBody(t) ==
    /\ ~crashed
    /\ pc[t] # <<>>
    /\ Top(t).fn = "Reset"
    /\ Top(t).at \in {"body", "called"}
    /\ IF Top(t).at = "body"
       THEN /\ pc' = CallFrom(t, "Remove")
            /\ UNCHANGED <<mu, ret, crashed>>
            /\ LogUnchanged
       ELSE IF Top(t).rv # ""
            THEN LogUnchanged /\ Finish(t, Result("Reset", 0, Top(t).rv))
            ELSE LET Done(r) == SetLog(r.W) /\ Finish(t, Result("Reset", 0, r.err))
                 IN  Done(LogSetup(TheLog, Config))
    /\ UNCHANGED <<stream, unit, Config, rdr, hist, calls, closed, reopened>>

LowestOffsetBody(t) ==
    /\ ~crashed
    /\ At(t, "LowestOffset", "body")
    /\ LET Done(r) == Finish(t, [Result("LowestOffset", 0, r.err) EXCEPT !.off = r.off])
       IN  Done(LogLowestOffset(TheLog))
    /\ LogUnchanged
    /\ UNCHANGED <<stream, unit, Config, rdr, hist, calls, closed, reopened>>

HighestOffsetBody(t) ==
    /\ ~crashed
    /\ At(t, "HighestOffset", "body")
    /\ LET Done(r) == Finish(t, [Result("HighestOffset", 0, r.err) EXCEPT !.off = r.off])
       IN  Done(LogHighestOffset(TheLog))
    /\ LogUnchanged
    /\ UNCHANGED <<stream, unit, Config, rdr, hist, calls, closed, reopened>>

TruncateBody(t) ==
    /\ ~crashed
    /\ At(t, "Truncate", "body")
    /\ LET Done(r) ==
            /\ SetLog(r.W)
            /\ Finish(t, Result("Truncate", Top(t).arg, r.err))
       IN  Done(LogTruncate(TheLog, Top(t).arg))
    /\ UNCHANGED <<stream, unit, Config, rdr, hist, calls, closed, reopened>>

ReaderBody(t) ==
    /\ ~crashed
    /\ At(t, "Reader", "body")
    /\ rdr' = [rdr EXCEPT ![t] = [NoReader EXCEPT !.open = TRUE,
                                                  !.readers = LogReader(TheLog),
                                                  !.calls = calls]]
    /\ Finish(t, Result("Reader", 0, ""))
    /\ LogUnchanged
    /\ UNCHANGED <<stream, unit, Config, hist, calls, closed, reopened>>

\* originReader.Read(p) with len(p) = n on reader rd: store.ReadAt at rd.off,
\* then rd.off += n read.
OriginRead(fs, sg, rd, n) ==
    LET Got(r) ==
            [err |-> r.err, data |-> r.data, fs |-> r.fs,
             segs |-> [sg EXCEPT ![rd.seg].store = r.store],
             rd |-> [rd EXCEPT !.off = rd.off + Len(r.data)]]
    IN  Got(StoreReadAt(fs, sg[rd.seg].store, rd.off, n))

\* io.MultiReader's Read(p) with len(p) = n: read from the first reader; a
\* reader that reports EOF is dropped; return as soon as bytes or an error
\* other than EOF came back, and EOF only once no reader is left.
RECURSIVE MultiRead(_, _, _, _)
MultiRead(fs, sg, readers, n) ==
    IF readers = <<>>
    THEN [err |-> "EOF", data |-> <<>>, fs |-> fs, segs |-> sg, readers |-> readers]
    ELSE LET Got(r, rest) ==
                 IF Len(r.data) > 0 \/ r.err # "EOF"
                 THEN [err |-> IF r.err = "EOF" /\ rest # <<>> THEN "" ELSE r.err,
                       data |-> r.data, fs |-> r.fs, segs |-> r.segs,
                       readers |-> rest]
                 ELSE MultiRead(r.fs, r.segs, rest, n)
             First(r) == Got(r, IF r.err = "EOF" THEN Tail(readers)
                                ELSE <<r.rd>> \o Tail(readers))
         IN  First(OriginRead(fs, sg, Head(readers), n))

\* The buffer sizes a client reads the stream with.
ReadSizes == {1, 16}

\* The goroutine that holds the stream of Log.Reader() reads from it (no Log
\* lock is taken: only the store's own mutex, inside store.ReadAt).
ReaderRead(t) ==
    /\ ~crashed
    /\ pc[t] = <<>>
    /\ rdr[t].open
    /\ rdr[t].err = ""
    /\ \E n \in ReadSizes :
        LET Done(r) ==
                /\ files' = r.fs
                /\ segs' = r.segs
                /\ rdr' = [rdr EXCEPT ![t].readers = r.readers,
                                      ![t].out = @ \o r.data,
                                      ![t].err = r.err]
        IN  Done(MultiRead(files, segs, rdr[t].readers, n))
    /\ UNCHANGED <<stream, unit, Config, dirExists, segments, activeSegment, mu, pc, ret, hist,
                   calls, closed, crashed, reopened>>

\* After a Log.Close that returned nil, with no call in progress, the owner
\* drops the Log and opens the same directory again with the same Config.
Reopen ==
    /\ ~crashed
    /\ closed
    /\ \A t \in DOMAIN pc : pc[t] = <<>>
    /\ LET Done(r) == SetLog(r.W) /\ crashed' = (r.err # "")
       IN  Done(newLog(files, dirExists, Config))
    /\ mu' = [w |-> "", r |-> {}]
    /\ rdr' = [t \in DOMAIN pc |-> NoReader]
    /\ ret' = [t \in DOMAIN pc |-> NoRet]
    /\ closed' = FALSE
    /\ reopened' = TRUE
    /\ UNCHANGED <<stream, unit, Config, pc, hist, calls>>

Next ==
    \/ \E t \in DOMAIN pc : Call(t)
    \/ \E t \in DOMAIN pc : Acquire(t)
    \/ \E t \in DOMAIN pc : AppendBody(t)
    \/ \E t \in DOMAIN pc : ReadBody(t)
    \/ \E t \in DOMAIN pc : CloseBody(t)
    \/ \E t \in DOMAIN pc : RemoveBody(t)
    \/ \E t \in DOMAIN pc : ResetBody(t)
    \/ \E t \in DOMAIN pc : LowestOffsetBody(t)
    \/ \E t \in DOMAIN pc : HighestOffsetBody(t)
    \/ \E t \in DOMAIN pc : TruncateBody(t)
    \/ \E t \in DOMAIN pc : ReaderBody(t)
    \/ \E t \in DOMAIN pc : ReaderRead(t)
    \/ Reopen

Init == InitOf(Threads1)

\* One goroutine calling the Log.
Spec == Init /\ [][Next]_vars

\* A goroutine that is inside a method of the Log keeps running: it takes the
\* lock when the lock stays free, and a method body, once entered, completes.
\* Client code is free to stop calling.
Progress(t) ==
    \/ Acquire(t)
    \/ AppendBody(t)
    \/ ReadBody(t)
    \/ CloseBody(t)
    \/ RemoveBody(t)
    \/ ResetBody(t)
    \/ LowestOffsetBody(t)
    \/ HighestOffsetBody(t)
    \/ TruncateBody(t)
    \/ ReaderBody(t)

\* Two goroutines calling Append and Read on the same Log.
AppendsAndReads == {q \in Requests : q.fn \in {"Append", "Read"}}

ConcNext ==
    \/ \E t \in DOMAIN pc : CallIn(t, AppendsAndReads)
    \/ \E t \in DOMAIN pc : Acquire(t)
    \/ \E t \in DOMAIN pc : AppendBody(t)
    \/ \E t \in DOMAIN pc : ReadBody(t)

ConcSpec == InitOf(Threads2) /\ [][ConcNext]_vars

FairSpec == Init /\ [][Next]_vars /\ \A t \in Threads1 : WF_vars(Progress(t))

-----------------------------------------------------------------------------
(* A store used on its own (store_test.go): newStore over a file, then any    *)
(* calls of Append, Read, ReadAt and Close by one goroutine.  Every method     *)
(* holds the store's mutex for its whole body.                                 *)

\* The Config whose fields are all zero: newLog's defaults apply.
ZeroConfig == [MaxStoreBytes |-> 0, MaxIndexBytes |-> 0, InitialOffset |-> 0]

\* No Log is open: the Log's variables stay as they are.
LogAbsent ==
    /\ dirExists = TRUE
    /\ segs = <<>>
    /\ segments = [isNil |-> TRUE, list |-> <<>>]
    /\ activeSegment = 0
    /\ mu = [w |-> "", r |-> {}]
    /\ pc = <<>>
    /\ ret = <<>>
    /\ rdr = <<>>
    /\ hist = <<>>
    /\ calls = 0
    /\ closed = FALSE
    /\ crashed = FALSE
    /\ reopened = FALSE
    /\ stream = NoStream

NoLog == Config = Defaulted(ZeroConfig) /\ LogAbsent

LogIdle ==
    UNCHANGED <<Config, dirExists, segs, segments, activeSegment, mu, pc, ret, rdr,
                hist, calls, closed, crashed, reopened, stream>>

\* One call on the stand-alone object, with what it returned.
UnitOp(op, arg, err) ==
    [op |-> op, arg |-> arg, err |-> err, n |-> 0, pos |-> 0, data |-> <<>>]

\* The contents of the file newStore is given: empty, or the frame an earlier
\* run left.
StoreFiles == { <<>>, PutUint64(1) \o <<65>> }

StoreInit ==
    /\ NoLog
    /\ \E d \in StoreFiles :
          /\ files = (StoreName(0) :> [len |-> Len(d), data |-> d])
          /\ unit = [obj |-> newStore(files, StoreName(0)),
                     ops |-> <<[UnitOp("newStore", 0, "") EXCEPT !.n = Len(d)]>>]

\* The positions a caller reads at: the start, the end, and what Append returned.
UnitPositions ==
    {0, unit.obj.size} \cup {unit.ops[i].pos : i \in 1..Len(unit.ops)}

UnitStoreAppend ==
    /\ Len(unit.ops) <= MaxUnitOps
    /\ \E p \in Values :
          LET Done(r) ==
                  unit' = [obj |-> r.store,
                           ops |-> Append(unit.ops,
                                          [UnitOp("Append", p, r.err)
                                              EXCEPT !.n = r.n, !.pos = r.pos])]
          IN  Done(StoreAppend(unit.obj, p))
    /\ files' = files
    /\ LogIdle

UnitStoreRead ==
    /\ Len(unit.ops) <= MaxUnitOps
    /\ \E pos \in UnitPositions :
          LET Done(r) ==
                  /\ files' = r.fs
                  /\ unit' = [obj |-> r.store,
                              ops |-> Append(unit.ops,
                                             [UnitOp("Read", pos, r.err)
                                                 EXCEPT !.data = r.data])]
          IN  Done(StoreRead(files, unit.obj, pos))
    /\ LogIdle

UnitStoreReadAt ==
    /\ Len(unit.ops) <= MaxUnitOps
    /\ \E off \in UnitPositions, n \in ReadSizes :
          LET Done(r) ==
                  /\ files' = r.fs
                  /\ unit' = [obj |-> r.store,
                              ops |-> Append(unit.ops,
                                             [UnitOp("ReadAt", off, r.err)
                                                 EXCEPT !.n = Len(r.data),
                                                        !.data = r.data])]
          IN  Done(StoreReadAt(files, unit.obj, off, n))
    /\ LogIdle

\* store.Close, with the way the file's Write goes as the call's input.
UnitStoreClose ==
    /\ Len(unit.ops) <= MaxUnitOps
    /\ \E fault \in FlushFaults :
          LET Done(r) ==
                  /\ files' = r.fs
                  /\ unit' = [obj |-> r.store,
                              ops |-> Append(unit.ops, UnitOp("Close", fault, r.err))]
          IN  Done(StoreCloseFault(files, unit.obj, fault))
    /\ LogIdle

StoreNext ==
    \/ UnitStoreAppend
    \/ UnitStoreRead
    \/ UnitStoreReadAt
    \/ UnitStoreClose

StoreSpec == StoreInit /\ [][StoreNext]_vars

-----------------------------------------------------------------------------
(* An index used on its own: newIndex over a file, then any calls of Write,   *)
(* Read and Close by one goroutine, and newIndex again on the file after a     *)
(* Close.                                                                      *)

\* The configurations newIndex is given: the Log's, and the default one.
IndexConfigs == { Defaulted(c) : c \in Configs \cup {ZeroConfig} }

\* The index files newIndex can find: a new one, one cleanly closed after one
\* or two entries, and one left grown to MaxIndexBytes with one entry in it
\* (no Close ran: a crash, or a Log whose Close reached no segment).
IndexFiles(c) ==
    { [len |-> 0, data |-> <<>>],
      [len |-> entryWidth, data |-> << <<0, 0>> >>],
      [len |-> 2 * entryWidth, data |-> << <<0, 0>>, <<1, 9>> >>],
      [len |-> c.MaxIndexBytes, data |-> << <<0, 0>> >>] }

IndexInit ==
    /\ LogAbsent
    /\ \E c \in IndexConfigs :
          /\ Config = c
          /\ \E f \in IndexFiles(c) :
                LET Done(r) ==
                        /\ files = r.fs
                        /\ unit = [obj |-> r.index,
                                   ops |-> <<[UnitOp("newIndex", 0, r.err)
                                                EXCEPT !.n = r.index.size,
                                                       !.data = f.data]>>]
                IN  Done(newIndex((IndexName(0) :> f), IndexName(0), c))

\* The relative offsets and store positions index.Write is called with.
IndexOffsets == {0, 1, 2}
StorePositions == {0, 9, 22}

\* The entry numbers index.Read is called with.
IndexReads == -2..3

\* A panic ended the process that used the object.
UnitPanicked == unit.ops # <<>> /\ unit.ops[Len(unit.ops)].err = "panic"

\* The whole mapping is backed by the file (no Close has cut the file under it).
MappingBacked == files[unit.obj.name].len = unit.obj.maplen

UnitIndexWrite ==
    /\ Len(unit.ops) <= MaxIndexOps
    /\ ~UnitPanicked
    /\ MappingBacked
    /\ \E off \in IndexOffsets, pos \in StorePositions :
          LET Done(r) ==
                  /\ files' = r.fs
                  /\ unit' = [obj |-> r.index,
                              ops |-> Append(unit.ops, UnitOp("Write", <<off, pos>>, r.err))]
          IN  Done(IndexWrite(files, unit.obj, off, pos))
    /\ LogIdle

UnitIndexRead ==
    /\ Len(unit.ops) <= MaxIndexOps
    /\ ~UnitPanicked
    /\ MappingBacked
    /\ \E in \in IndexReads :
          LET Done(r) ==
                  unit' = [unit EXCEPT !.ops = Append(unit.ops,
                                                      [UnitOp("Read", in, r.err)
                                                          EXCEPT !.data = <<r.rel, r.pos>>])]
          IN  Done(IndexRead(files, unit.obj, in))
    /\ files' = files
    /\ LogIdle

\* index.Close, with the step the operating system fails as the call's input.
UnitIndexClose ==
    /\ Len(unit.ops) <= MaxIndexOps
    /\ ~UnitPanicked
    /\ \E fault \in IndexCloseFaults :
          LET Done(r) ==
                  /\ files' = r.fs
                  /\ unit' = [obj |-> r.index,
                              ops |-> Append(unit.ops,
                                             [UnitOp("Close", fault, r.err)
                                                 EXCEPT !.data = r.steps])]
          IN  Done(IndexCloseFault(files, unit.obj, fault))
    /\ LogIdle

\* newIndex on the file of an index that was closed.
UnitIndexReopen ==
    /\ Len(unit.ops) <= MaxIndexOps
    /\ ~UnitPanicked
    /\ unit.obj.closed
    /\ LET Done(r) ==
              /\ files' = r.fs
              /\ unit' = [obj |-> r.index,
                          ops |-> Append(unit.ops,
                                         [UnitOp("newIndex", 0, r.err)
                                             EXCEPT !.n = r.index.size])]
       IN  Done(newIndex(files, IndexName(0), Config))
    /\ LogIdle

IndexNext ==
    \/ UnitIndexWrite
    \/ UnitIndexRead
    \/ UnitIndexClose
    \/ UnitIndexReopen

IndexSpec == IndexInit /\ [][IndexNext]_vars

-----------------------------------------------------------------------------
(* newLog over a directory that already holds files. *)

\* The files a directory can hold: any of the store and index files of three
\* base offsets, each one empty.
DirNames == {0, 3, 5} \X {"store", "index"}

SetupInit ==
    /\ LogAbsent
    /\ unit = NoUnit
    /\ \E c \in Configs : Config = Defaulted(c)
    /\ \E names \in SUBSET DirNames :
          files = [k \in names |-> [len |-> 0, data |-> <<>>]]

\* newLog(dir, Config) on the directory; an error leaves no Log.
OpenDir ==
    /\ activeSegment = 0
    /\ ~crashed
    /\ LET Done(r) == SetLog(r.W) /\ crashed' = (r.err # "")
       IN  Done(newLog(files, dirExists, Config))
    /\ UNCHANGED <<stream, unit, Config, mu, pc, ret, rdr, hist, calls, closed, reopened>>

SetupSpec == SetupInit /\ [][OpenDir]_vars

-----------------------------------------------------------------------------
(* Log.Truncate on a Log whose l.segments holds its segments, as newSegment's *)
(* doc comment says it leaves it; files of the directory may have been        *)
(* deleted from outside, which makes a segment's Remove fail.                 *)

\* The Log after n Appends of a one-byte record.
RECURSIVE LogAfter(_, _, _)
LogAfter(W, n, c) ==
    IF n = 0 THEN W ELSE LogAfter(LogAppend(W, <<65>>, c).W, n - 1, c)

\* l.segments holding every segment created, in creation order.
Listed(W) ==
    [W EXCEPT !.segments = [isNil |-> FALSE, list |-> [i \in 1..Len(W.segs) |-> i]]]

\* The Appends that returned before Truncate is called.
HistAfter(n, c) ==
    [i \in 1..n |-> [off |-> c.InitialOffset + i - 1, val |-> <<65>>]]

TruncInit ==
    \E c \in Configs : \E n \in 0..MaxAppends :
        LET Made(W) ==
                /\ dirExists = W.dirOK
                /\ segs = W.segs
                /\ segments = W.segments
                /\ activeSegment = W.active
                /\ \E lost \in {{}} \cup {{k} : k \in DOMAIN W.fs} :
                      files = Drop(W.fs, lost)
        IN
        /\ Made(Listed(LogAfter(newLog(<< >>, TRUE, Defaulted(c)).W, n, Defaulted(c))))
        /\ Config = Defaulted(c)
        /\ mu = [w |-> "", r |-> {}]
        /\ pc = [t \in Threads1 |-> <<>>]
        /\ ret = [t \in Threads1 |-> NoRet]
        /\ rdr = [t \in Threads1 |-> NoReader]
        /\ hist = HistAfter(n, Defaulted(c))
        /\ calls = n
        /\ closed = FALSE
        /\ crashed = FALSE
        /\ reopened = FALSE
        /\ unit = NoUnit
        /\ stream = NoStream

Truncates == {q \in Requests : q.fn = "Truncate"}

TruncNext ==
    \/ \E t \in DOMAIN pc : CallIn(t, Truncates)
    \/ \E t \in DOMAIN pc : Acquire(t)
    \/ \E t \in DOMAIN pc : TruncateBody(t)

TruncSpec == TruncInit /\ [][TruncNext]_vars

-----------------------------------------------------------------------------
(* grpcServer.ConsumeStream serving one stream from this Log as its            *)
(* CommitLog, while a client goroutine appends.  Goroutine "srv" runs the      *)
(* stream; its Consume calls go through Log.Read like any other Read.          *)

StreamThreads == {"t1", "srv"}

\* The offsets a ConsumeRequest starts at.
StreamOffsets == 0..2

\* What stream.Send returns: nil or an error.
SendFaults == {"", "send"}

\* The dynamic type of the error Log.Read returned, as ConsumeStream's type
\* switch sees it: Read builds its out-of-range error with fmt.Errorf, which
\* yields an *errors.errorString, not an api.ErrOffsetOutOfRange.
ErrorType(err) ==
    IF err = "" THEN "nil"
    ELSE IF err = "offset out of range" THEN "*errors.errorString"
    ELSE "error"

Appends == {q \in Requests : q.fn = "Append"}

\* A client opens the stream: ConsumeStream(req, stream) starts at req.Offset.
ConsumeStreamCall ==
    /\ ~crashed
    /\ stream.at = "idle"
    /\ \E o \in StreamOffsets :
          stream' = [NoStream EXCEPT !.at = "select", !.start = o, !.off = o]
    /\ LogUnchanged
    /\ UNCHANGED <<unit, Config, mu, pc, ret, rdr, hist, calls, closed, crashed, reopened>>

\* The stream's context is cancelled (the client went away).
ContextDone ==
    /\ ~crashed
    /\ stream.at \in {"select", "consume"}
    /\ ~stream.done
    /\ stream' = [stream EXCEPT !.done = TRUE]
    /\ LogUnchanged
    /\ UNCHANGED <<unit, Config, mu, pc, ret, rdr, hist, calls, closed, crashed, reopened>>

\* The select at the head of the loop: return nil when the context is done,
\* otherwise the default case calls s.Consume, that is CommitLog.Read(req.Offset).
ConsumeStreamSelect ==
    /\ ~crashed
    /\ stream.at = "select"
    /\ pc["srv"] = <<>>
    /\ IF stream.done
       THEN /\ stream' = [stream EXCEPT !.at = "returned", !.err = ""]
            /\ UNCHANGED <<pc, ret>>
       ELSE /\ stream' = [stream EXCEPT !.at = "consume"]
            /\ pc' = [pc EXCEPT !["srv"] = <<Frame("Read", stream.off)>>]
            /\ ret' = [ret EXCEPT !["srv"] = NoRet]
    /\ LogUnchanged
    /\ UNCHANGED <<unit, Config, mu, rdr, hist, calls, closed, crashed, reopened>>

\* Consume has returned: the type switch on its error, then Send and
\* req.Offset++.
ConsumeStreamSwitch ==
    /\ ~crashed
    /\ stream.at = "consume"
    /\ pc["srv"] = <<>>
    /\ ret["srv"].fn = "Read"
    /\ CASE ErrorType(ret["srv"].err) = "nil" ->
              \E f \in SendFaults :
                  stream' = IF f # ""
                            THEN [stream EXCEPT !.at = "returned", !.err = f]
                            ELSE [stream EXCEPT
                                    !.at = "select",
                                    !.sent = Append(@, [off |-> stream.off,
                                                        val |-> ret["srv"].data]),
                                    !.off = @ + 1]
         [] ErrorType(ret["srv"].err) = "api.ErrOffsetOutOfRange" ->
              stream' = [stream EXCEPT !.at = "select"]
         [] OTHER ->
              stream' = [stream EXCEPT !.at = "returned", !.err = ret["srv"].err]
    /\ LogUnchanged
    /\ UNCHANGED <<unit, Config, mu, pc, ret, rdr, hist, calls, closed, crashed, reopened>>

StreamNext ==
    \/ \E t \in StreamThreads \ {"srv"} : CallIn(t, Appends)
    \/ \E t \in DOMAIN pc : Acquire(t)
    \/ \E t \in DOMAIN pc : AppendBody(t)
    \/ \E t \in DOMAIN pc : ReadBody(t)
    \/ ConsumeStreamCall
    \/ ContextDone
    \/ ConsumeStreamSelect
    \/ ConsumeStreamSwitch

StreamSpec == InitOf(StreamThreads) /\ [][StreamNext]_vars

-----------------------------------------------------------------------------
(* Properties *)

\* The step in which goroutine t's call of method fn returns (or panics).
Returns(t, fn) == At(t, fn, "body") /\ pc'[t] = <<>>

\* A goroutine calls fn while nobody holds l.mu.
CallsUnlocked(t, fn) ==
    /\ Len(pc[t]) = 1
    /\ At(t, fn, "lock")
    /\ mu.w = ""
    /\ mu.r = {}

\* Whether some segment this Log holds has offset off in its range.
Covered(off) ==
    \E i \in 1..Len(segs) : segs[i].baseOffset <= off /\ off < segs[i].nextOffset

\* Whether offset off was assigned by a successful Append and the files of
\* its segment (the one with the greatest base offset <= off) are on disk.
Assigned(off) ==
    /\ \E i \in 1..Len(hist) : hist[i].off = off
    /\ \E k \in DOMAIN files : k[1] <= off

\* The value appended at offset off.
ValueAt(off) == hist[CHOOSE i \in 1..Len(hist) : hist[i].off = off].val

\* The store content (file bytes, then bytes still in the write buffer) of
\* the segments i, i+1, ... this Log holds, concatenated in order.
RECURSIVE StoresFrom(_)
StoresFrom(i) ==
    IF i > Len(segs) THEN <<>>
    ELSE (IF segs[i].store.name \in DOMAIN files THEN files[segs[i].store.name].data
          ELSE <<>>)
         \o segs[i].store.buf \o StoresFrom(i + 1)

\* C1: starting from an empty log with InitialOffset = I, the k-th successful
\* Log.Append returns I + k - 1, across segment rolls: no gap and no repeat.
C1_OffsetsDense ==
    \A i \in 1..Len(hist) : hist[i].off = Config.InitialOffset + i - 1

\* C1 witness: four successful Appends across two rolls, from InitialOffset 1.
C1_Witness ==
    /\ Len(hist) >= 4
    /\ Len(segs) >= 3
    /\ Config.InitialOffset = 1
    /\ ~reopened

\* C2: a Log.Read(o) of an offset o that a successful Append(v) returned
\* (its segment not truncated away) succeeds and returns exactly v.
C2_ReadReturnsAppended ==
    \A t \in DOMAIN pc :
        (~reopened /\ ret[t].fn = "Read" /\ Assigned(ret[t].arg))
            => (ret[t].err = "" /\ ret[t].data = ValueAt(ret[t].arg))

\* C3: Log.Read(o) fails with offset-out-of-range exactly when no segment of
\* the log has baseOffset <= o < nextOffset, and a failing Read leaves the
\* segment list and every segment's nextOffset unchanged.
C3_OutOfRangeExactly ==
    [][\A t \in DOMAIN pc :
          Returns(t, "Read") =>
            /\ (ret'[t].err = "offset out of range") <=> ~Covered(Top(t).arg)
            /\ ret'[t].err # "" =>
                  /\ segments' = segments
                  /\ \A i \in 1..Len(segs) : segs'[i].nextOffset = segs[i].nextOffset]_vars

\* C4: when the active segment is maxed after an Append that returned o, a
\* new segment based at o + 1 (the old active segment's nextOffset) has been
\* created, put at the end of the segment list and made active before Append
\* returns; every appended record lies in the segment that was active.
C4_RollBoundary ==
    [][\A t \in DOMAIN pc :
          (Returns(t, "Append") /\ ret'[t].err = "") =>
            /\ segs'[activeSegment].baseOffset <= ret'[t].off
            /\ ret'[t].off < segs'[activeSegment].nextOffset
            /\ SegIsMaxed(segs'[activeSegment], Config) =>
                  /\ Len(segs') = Len(segs) + 1
                  /\ activeSegment' = Len(segs')
                  /\ segs'[activeSegment'].baseOffset = ret'[t].off + 1
                  /\ segs'[activeSegment'].baseOffset = segs'[activeSegment].nextOffset
                  /\ segments'.list # <<>>
                  /\ segments'.list[Len(segments'.list)] = activeSegment']_vars

\* C5: after successful Appends, a clean Close and a re-open of the directory
\* with the same Config, LowestOffset and HighestOffset are as before, every
\* assigned offset reads back its bytes, and the next Append returns the old
\* HighestOffset + 1.
C5_Recovery ==
    reopened =>
        \A t \in DOMAIN pc :
            /\ (ret[t].fn = "Read" /\ Assigned(ret[t].arg))
                  => (ret[t].err = "" /\ ret[t].data = ValueAt(ret[t].arg))
            /\ ret[t].fn = "LowestOffset"
                  => /\ ret[t].err = ""
                     /\ \E k \in DOMAIN files : k[1] = ret[t].off
                     /\ \A k \in DOMAIN files : ret[t].off <= k[1]
            /\ (ret[t].fn = "HighestOffset" /\ hist # <<>>)
                  => (ret[t].err = "" /\ ret[t].off = hist[Len(hist)].off)
            /\ ret[t].fn = "Append"
                  => (ret[t].err = "" /\ ret[t].off = Config.InitialOffset + Len(hist) - 1)

\* C6: Log.Truncate(lowest) with lowest >= 1 removes exactly the segments
\* whose nextOffset <= lowest - 1 (their files are deleted) and keeps the
\* others, in their order, as the segment list.
C6_TruncateRemovesBelow ==
    [][\A t \in DOMAIN pc :
          (Returns(t, "Truncate") /\ Top(t).arg >= 1 /\ ret'[t].err = "") =>
            /\ \A i \in 1..Len(segs) :
                  (segs[i].nextOffset <= Top(t).arg - 1)
                      <=> (segs[i].store.name \notin DOMAIN files'
                           /\ segs[i].index.name \notin DOMAIN files')
            /\ \A i \in 1..Len(segs) :
                  (segs[i].nextOffset > Top(t).arg - 1)
                      => \E j \in 1..Len(segments'.list) : segments'.list[j] = i]_vars

\* C7: HighestOffset returns the offset of the most recent Append and
\* LowestOffset the base offset of the first segment of the list; both return
\* normally on every open log, a freshly created empty one included.
C7_OffsetsReturn ==
    \A t \in DOMAIN pc :
        /\ ret[t].fn = "LowestOffset"
              => /\ ret[t].err = ""
                 /\ segments.list # <<>>
                 /\ ret[t].off = segs[segments.list[1]].baseOffset
        /\ ret[t].fn = "HighestOffset"
              => /\ ret[t].err = ""
                 /\ (~reopened /\ hist # <<>>) => ret[t].off = hist[Len(hist)].off

\* C8: the stream of Log.Reader(), read to end-of-stream with no Append in
\* between, yields the concatenation, in segment order, of every segment's
\* full store content, frames still in the write buffer included.
C8_ReaderConcatenation ==
    \A t \in DOMAIN pc :
        (rdr[t].open /\ rdr[t].err = "EOF" /\ rdr[t].calls = calls)
            => rdr[t].out = StoresFrom(1)

\* C9: a Log.Remove called while nobody holds the log's lock eventually
\* returns.
C9_RemoveReturns ==
    \A t \in Threads1 : CallsUnlocked(t, "Remove") ~> (pc[t] = <<>>)

\* The state of a freshly set-up empty log: one segment, based at
\* InitialOffset, in the list and active, open and empty.
FreshLog ==
    /\ Len(segments.list) = 1
    /\ activeSegment = segments.list[1]
    /\ segs[activeSegment].baseOffset = Config.InitialOffset
    /\ segs[activeSegment].nextOffset = Config.InitialOffset
    /\ segs[activeSegment].store.size = 0
    /\ segs[activeSegment].index.size = 0
    /\ ~segs[activeSegment].store.closed
    /\ ~segs[activeSegment].index.closed

\* C10: a Log.Reset on a log that holds records returns successfully and
\* leaves the log in the state of a freshly set-up empty log.
C10_ResetFresh ==
    \A t \in Threads1 :
        (CallsUnlocked(t, "Reset") /\ hist # <<>>)
            ~> (pc[t] = <<>> /\ ret[t].fn = "Reset" /\ ret[t].err = "" /\ FreshLog)

\* Goroutine t is inside a method body, holding l.mu as that method takes it.
InBody(t) == pc[t] # <<>> /\ Top(t).at = "body"

\* Every offset below the segment's nextOffset has its index entry and its
\* store frame written.
SegWritten(seg) ==
    /\ seg.index.size >= entryWidth * (seg.nextOffset - seg.baseOffset)
    /\ \A k \in 0..(seg.nextOffset - seg.baseOffset - 1) :
          /\ EntryAt(files, seg.index.name, k)[1] = k
          /\ EntryAt(files, seg.index.name, k)[2] + lenWidth <= seg.store.size

\* C11: with two goroutines calling Append and Read, an Append body never
\* overlaps another body (only Read bodies overlap each other); the successful
\* Appends get distinct, gap-free offsets under every interleaving; and while
\* a Read holds the lock every segment's records below nextOffset are written.
C11_AppendReadExclusive ==
    /\ \A t, u \in DOMAIN pc :
          (t # u /\ InBody(t) /\ InBody(u)) => (Top(t).fn = "Read" /\ Top(u).fn = "Read")
    /\ \A i, j \in 1..Len(hist) :
          /\ i < j => hist[i].off # hist[j].off
          /\ i + 1 = j => hist[j].off = hist[i].off + 1
    /\ \A t \in DOMAIN pc :
          (InBody(t) /\ Top(t).fn = "Read") => \A i \in 1..Len(segs) : SegWritten(segs[i])

\* C11 witness: after two Appends, one goroutine is inside Append's body
\* while the other has called Append and waits for the lock.
C11_Witness ==
    /\ Len(hist) >= 2
    /\ At("t1", "Append", "body")
    /\ At("t2", "Append", "lock")

\* The bytes the successful Appends among the first k calls put in the store.
RECURSIVE FramesIn(_, _)
FramesIn(ops, k) ==
    IF k = 0 THEN 0
    ELSE FramesIn(ops, k - 1)
         + (IF ops[k].op = "Append" /\ ops[k].err = "" THEN Len(ops[k].arg) + lenWidth
            ELSE 0)

\* C12: on a store opened over a file of length S0, every successful
\* store.Append of a payload of length L returns n = L + 8 and pos = S0 + the
\* sum of the earlier frames, and the store's size grows by exactly L + 8 per
\* call: frames are contiguous and never overlap.
C12_AppendPositions ==
    unit.ops # <<>> /\ unit.ops[1].op = "newStore" =>
        /\ \A i \in 2..Len(unit.ops) :
              (unit.ops[i].op = "Append" /\ unit.ops[i].err = "") =>
                  /\ unit.ops[i].n = Len(unit.ops[i].arg) + lenWidth
                  /\ unit.ops[i].pos = unit.ops[1].n + FramesIn(unit.ops, i - 1)
        /\ unit.obj.size = unit.ops[1].n + FramesIn(unit.ops, Len(unit.ops))

\* C12 witness: three successful Appends of payloads of both lengths on a store
\* opened over a file that already holds a frame.
C12_Witness ==
    /\ Len(unit.ops) = 4
    /\ unit.ops[1].op = "newStore" /\ unit.ops[1].n > 0
    /\ \A i \in 2..4 : unit.ops[i].op = "Append" /\ unit.ops[i].err = ""
    /\ unit.ops[2].arg # unit.ops[3].arg

\* C13: a store.Read(pos) of a position a successful store.Append(p) returned,
\* made before any Close, returns exactly p, also when the frame was still in
\* the write buffer when Read was called.
C13_StoreReadYourWrites ==
    unit.ops # <<>> /\ unit.ops[1].op = "newStore" =>
        \A j, k \in 2..Len(unit.ops) :
            (/\ j < k
             /\ unit.ops[j].op = "Append" /\ unit.ops[j].err = ""
             /\ unit.ops[k].op = "Read" /\ unit.ops[k].arg = unit.ops[j].pos
             /\ \A c \in 2..k : unit.ops[c].op # "Close")
                => (unit.ops[k].err = "" /\ unit.ops[k].data = unit.ops[j].arg)

\* C13 witness: two Appends, then at once a Read of the second frame, which is
\* still in the write buffer.
C13_Witness ==
    /\ Len(unit.ops) = 4
    /\ unit.ops[2].op = "Append" /\ unit.ops[3].op = "Append"
    /\ unit.ops[4].op = "Read" /\ unit.ops[4].arg = unit.ops[3].pos
    /\ unit.ops[4].err = "" /\ unit.ops[4].data = unit.ops[3].arg

\* C14: appended bytes not yet flushed are not in the file (the file is
\* shorter than the store's size by the buffered bytes); a store.Close that
\* returns nil leaves the file as long as the store's size, and closed; a
\* Close whose flush fails returns that error and does not close the file.
C14_StoreCloseFlushes ==
    [][(unit.ops # <<>> /\ unit.ops[1].op = "newStore"
        /\ Len(unit'.ops) = Len(unit.ops) + 1
        /\ unit'.ops[Len(unit'.ops)].op = "Close")
        => LET close == unit'.ops[Len(unit'.ops)]
               flush == StoreFlushFault(files, unit.obj, close.arg)
           IN  /\ Len(files[StoreName(0)].data) = unit.obj.size - Len(unit.obj.buf)
               /\ close.err = "" =>
                     /\ Len(files'[StoreName(0)].data) = unit'.obj.size
                     /\ unit'.obj.closed
               /\ flush.err # "" =>
                     /\ close.err = flush.err
                     /\ unit'.obj.closed = unit.obj.closed]_vars

\* C14 witness: an Append whose frame is not in the file, then a Close that
\* returned nil and left the whole frame in the file.
C14_Witness ==
    /\ Len(unit.ops) = 3
    /\ unit.ops[1].op = "newStore"
    /\ unit.ops[2].op = "Append" /\ unit.ops[2].err = ""
    /\ unit.ops[3].op = "Close" /\ unit.ops[3].err = ""
    /\ Len(files[StoreName(0)].data) = unit.ops[1].n + unit.ops[2].n

\* The stand-alone object is an index, and this step is a call of op on it.
IndexStep(op) ==
    /\ unit.ops # <<>> /\ unit.ops[1].op = "newIndex"
    /\ Len(unit'.ops) = Len(unit.ops) + 1
    /\ unit'.ops[Len(unit'.ops)].op = op

\* The entries written to the index file so far: those the file held when it
\* was first opened, then the arguments of the successful Writes among the
\* first k calls.
RECURSIVE Written(_, _)
Written(ops, k) ==
    IF k = 1 THEN ops[1].data
    ELSE IF ops[k].op = "Write" /\ ops[k].err = "" THEN Append(Written(ops, k - 1), ops[k].arg)
    ELSE Written(ops, k - 1)

\* C15: index.Write fails with end-of-file, changing neither the used size nor
\* the mapping, exactly when used + 12 exceeds the mapping's length; otherwise
\* it stores the entry at byte `used` and adds 12 to used, whatever the store
\* position is.
C15_WriteFullExactly ==
    [][IndexStep("Write") =>
         LET w == unit'.ops[Len(unit'.ops)]
             used == unit.obj.size
         IN  /\ (w.err = "EOF") <=> (used + entryWidth > unit.obj.maplen)
             /\ w.err = "EOF" => (unit'.obj = unit.obj /\ files' = files)
             /\ used + entryWidth <= unit.obj.maplen =>
                   /\ w.err = ""
                   /\ unit'.obj.size = used + entryWidth
                   /\ EntryAt(files', unit.obj.name, used \div entryWidth) = w.arg]_vars

\* C16: with k entries written to an index, Read(n) returns the n-th entry
\* for 0 <= n < k and the last one for n = -1 (k >= 1), fails with end-of-file
\* for n >= k and whenever k = 0, fails with an argument error for n < -1
\* (k >= 1), and changes nothing.
C16_ReadReturnsWritten ==
    [][IndexStep("Read") =>
         LET rd == unit'.ops[Len(unit'.ops)]
             w == Written(unit.ops, Len(unit.ops))
         IN  /\ (0 <= rd.arg /\ rd.arg < Len(w)) =>
                   (rd.err = "" /\ rd.data = w[rd.arg + 1])
             /\ (rd.arg = -1 /\ Len(w) >= 1) => (rd.err = "" /\ rd.data = w[Len(w)])
             /\ (rd.arg >= Len(w) \/ Len(w) = 0) => rd.err = "EOF"
             /\ (rd.arg < -1 /\ Len(w) >= 1) => rd.err = "invalid index offset"
             /\ unit'.obj = unit.obj
             /\ files' = files]_vars

\* C19: the index's used size is a multiple of 12 in every reachable state,
\* also after newIndex on a file left grown to MaxIndexBytes.
C19_UsedMultipleOfEntryWidth ==
    (unit.ops # <<>> /\ unit.ops[1].op = "newIndex") => unit.obj.size % entryWidth = 0

\* The order of index.Close's steps.
CloseOrder == <<"msync", "fsync", "truncate", "close">>

\* C20: index.Close runs sync-mapping, sync-file, truncate-to-used-size and
\* close-file in that order, stops at the first step that fails and returns
\* its error; a Close that returns nil leaves the file as long as the used
\* size with its entries kept, and a newIndex on that file starts with the same
\* used size and the same entries.
C20_CloseOrderAndLength ==
    [][/\ IndexStep("Close") =>
            LET cl == unit'.ops[Len(unit'.ops)]
                n == Len(cl.data)
            IN  /\ n >= 1 /\ n <= Len(CloseOrder) /\ cl.data = SubSeq(CloseOrder, 1, n)
                /\ cl.err = "" => n = Len(CloseOrder)
                /\ (\E i \in 1..n : cl.data[i] = cl.arg) =>
                      /\ cl.data[n] = cl.arg
                      /\ cl.err = cl.arg \/ (unit.obj.closed /\ cl.err # "")
                /\ (cl.err # "" /\ n < 3) => files' = files
                /\ cl.err = "" =>
                      /\ files'[unit.obj.name].len = unit.obj.size
                      /\ \A k \in 0..(unit.obj.size \div entryWidth - 1) :
                            EntryAt(files', unit.obj.name, k) = EntryAt(files, unit.obj.name, k)
       /\ (IndexStep("newIndex") /\ unit.ops[Len(unit.ops)].op = "Close") =>
            /\ unit'.obj.size = unit.obj.size
            /\ \A k \in 0..(unit.obj.size \div entryWidth - 1) :
                  EntryAt(files', unit.obj.name, k) = EntryAt(files, unit.obj.name, k)]_vars

\* C20 witness: a Write, a Close that returned nil, and a newIndex on the file
\* that starts with the one entry.
C20_Witness ==
    /\ Len(unit.ops) = 4
    /\ unit.ops[1].op = "newIndex" /\ unit.ops[1].n = 0
    /\ unit.ops[2].op = "Write" /\ unit.ops[2].err = ""
    /\ unit.ops[3].op = "Close" /\ unit.ops[3].err = ""
    /\ unit.ops[4].op = "newIndex" /\ unit.ops[4].n = entryWidth
    /\ EntryAt(files, IndexName(0), 0) = unit.ops[2].arg

\* C17: the Log's segment list is never empty, is ordered by base offset
\* ascending, and ends with the active segment: every segment newSegment
\* creates is in the list.
C17_SegmentListInvariant ==
    (DOMAIN pc # {} /\ ~crashed) =>
        /\ segments.list # <<>>
        /\ \A i, j \in 1..Len(segments.list) :
              i < j => segs[segments.list[i]].baseOffset < segs[segments.list[j]].baseOffset
        /\ activeSegment = segments.list[Len(segments.list)]
        /\ \A i \in 1..Len(segs) : \E j \in 1..Len(segments.list) : segments.list[j] = i

\* The elements of a set of numbers in ascending order.
RECURSIVE Ascending(_)
Ascending(S) ==
    IF S = {} THEN <<>>
    ELSE LET First(lo) == <<lo>> \o Ascending(S \ {lo})
         IN  First(CHOOSE n \in S : \A m \in S : n <= m)

\* C18: setup opens exactly one segment per distinct base offset among the
\* file names, in ascending order, and makes the last one active, whatever
\* files are there; with no file at all it creates one segment at
\* Config.InitialOffset.
C18_SetupOpensEachBase ==
    [][(activeSegment = 0 /\ activeSegment' # 0) =>
         LET bases == Ascending({k[1] : k \in DOMAIN files})
         IN  /\ activeSegment' = Len(segs')
             /\ IF bases = <<>>
                THEN Len(segs') = 1 /\ segs'[1].baseOffset = Config.InitialOffset
                ELSE /\ Len(segs') = Len(bases)
                     /\ \A i \in 1..Len(bases) : segs'[i].baseOffset = bases[i]]_vars

RemovedNow(s) ==
    /\ segs'[s].index.closed
    /\ segs[s].store.name \notin DOMAIN files'
    /\ segs[s].index.name \notin DOMAIN files'

\* Segment s and its files are as they were before this step.
Untouched(s) ==
    /\ segs'[s] = segs[s]
    /\ \A k \in {segs[s].store.name, segs[s].index.name} :
          /\ k \in DOMAIN files <=> k \in DOMAIN files'
          /\ k \in DOMAIN files => files'[k] = files[k]

C22_ConsumeStreamRetries ==
    [][/\ \A i \in 1..Len(stream'.sent) :
             /\ stream'.sent[i].off = stream'.start + i - 1
             /\ \E j \in 1..Len(hist') : hist'[j] = stream'.sent[i]
       /\ (stream.at = "consume" /\ stream'.at # "consume") =>
             /\ ret["srv"].err = "offset out of range" =>
                   /\ stream'.at = "select"
                   /\ stream'.off = stream.off
                   /\ stream'.sent = stream.sent
             /\ ret["srv"].err \notin {"", "offset out of range"} =>
                   /\ stream'.at = "returned"
                   /\ stream'.err = ret["srv"].err
             /\ ret["srv"].err = "" =>
                   \/ stream'.at = "returned" /\ stream'.err # ""
                   \/ /\ stream'.at = "select"
                      /\ stream'.off = stream.off + 1
                      /\ Len(stream'.sent) = Len(stream.sent) + 1
       /\ (stream.at = "select" /\ stream'.at = "returned") =>
             (stream.done /\ stream'.err = "")]_vars

====
